---- MODULE Spec2Model ----
(***************************************************************************)
(* A model of scrape_cricinfo_player.py: the query enumeration, the URL    *)
(* builder, the page fetcher, the table extractor and normalizer, the      *)
(* per-page exporter, the workbook aggregator and the orchestrating loop   *)
(* of main.                                                                *)
(*                                                                         *)
(* Representation.  A Python str is a sequence of one-character strings,   *)
(* so that slicing, joining and the regular expression of safe_filename    *)
(* are computed and not assumed.  Identifier-like words held in records    *)
(* (QuerySpec.type, column names, titles) are kept as atoms and turned     *)
(* into characters by Chars where the code formats them into a str.        *)
(* Optional[T] is <<>> for None and <<x>> for a value x.  A dict is the    *)
(* sequence of its items in insertion order.                               *)
(***************************************************************************)
EXTENDS Integers, Sequences, FiniteSets, TLC

VARIABLES
    pc,          \* position of the control thread
    player_id,   \* main's argument
    specs_raw,   \* build_default_specs: the local list `specs`
    seen,        \* build_default_specs: the local set `seen`
    uniq,        \* build_default_specs: the local list `uniq`
    ei,          \* build_default_specs: position of the running loop
    specs,       \* main: the list returned by build_default_specs
    idx,         \* main: 1-based position of the next spec of the for loop
    all_tables,  \* main: dict key -> list of normalized tables
    failures,    \* main: list of (url, message)
    files,       \* output directory: the per-page CSV files written
    sheets,      \* the workbook: sheet writes, in order
    fail_log,    \* failures.txt: <<>> until written
    now,         \* elapsed time, in units of sleep_s
    reqAt,       \* history: the time each GET was issued at
    attempted,   \* history: positions of the specs whose URL was requested
    responses,   \* history: what the server and the disk did per request
    events,      \* history: number of requests that were not answered quietly
    ioErrors,    \* history: the output files whose write raised OSError
    arg,         \* argument of a function applied on its own
    ret          \* its result

vars == <<pc, player_id, specs_raw, seen, uniq, ei, specs, idx, all_tables,
          failures, files, sheets, fail_log, now, reqAt, attempted, responses,
          events, ioErrors, arg, ret>>

mainVars == <<player_id, specs_raw, seen, uniq, ei, specs, idx, all_tables,
              failures, files, sheets, fail_log, now, reqAt, attempted,
              responses, events, ioErrors>>

(***************************************************************************)
(* Python values.                                                          *)
(***************************************************************************)
None == <<>>

Some(x) == <<x>>

Min(a, b) == IF a < b THEN a ELSE b

\* s[:n]
Prefix(s, n) == SubSeq(s, 1, Min(n, Len(s)))

Chars(w) ==
    CASE w = "" -> <<>>
      [] w = "class" -> <<"c", "l", "a", "s", "s">>
      [] w = "template" -> <<"t", "e", "m", "p", "l", "a", "t", "e">>
      [] w = "results" -> <<"r", "e", "s", "u", "l", "t", "s">>
      [] w = "type" -> <<"t", "y", "p", "e">>
      [] w = "view" -> <<"v", "i", "e", "w">>
      [] w = "batting" -> <<"b", "a", "t", "t", "i", "n", "g">>
      [] w = "bowling" -> <<"b", "o", "w", "l", "i", "n", "g">>
      [] w = "fielding" -> <<"f", "i", "e", "l", "d", "i", "n", "g">>
      [] w = "innings" -> <<"i", "n", "n", "i", "n", "g", "s">>
      [] w = "dismissal_summary" -> <<"d", "i", "s", "m", "i", "s", "s", "a", "l", "_", "s", "u", "m", "m", "a", "r", "y">>
      [] w = "career" -> <<"c", "a", "r", "e", "e", "r">>
      [] w = "match" -> <<"m", "a", "t", "c", "h">>
      [] w = "series" -> <<"s", "e", "r", "i", "e", "s">>
      [] w = "none" -> <<"n", "o", "n", "e">>
      [] w = "orderby" -> <<"o", "r", "d", "e", "r", "b", "y">>
      [] w = "runs" -> <<"r", "u", "n", "s">>
      [] w = "filter" -> <<"f", "i", "l", "t", "e", "r">>
      [] w = "advanced" -> <<"a", "d", "v", "a", "n", "c", "e", "d">>
      [] w = "https://stats.espncricinfo.com/ci/engine/player/" -> <<"h", "t", "t", "p", "s", ":", "/", "/", "s", "t", "a", "t", "s", ".", "e", "s", "p", "n", "c", "r", "i", "c", "i", "n", "f", "o", ".", "c", "o", "m", "/", "c", "i", "/", "e", "n", "g", "i", "n", "e", "/", "p", "l", "a", "y", "e", "r", "/">>
      [] w = ".html" -> <<".", "h", "t", "m", "l">>
      [] w = "type=" -> <<"t", "y", "p", "e", "=">>
      [] w = "__view=" -> <<"_", "_", "v", "i", "e", "w", "=">>
      [] w = "__class=" -> <<"_", "_", "c", "l", "a", "s", "s", "=">>
      [] w = "__table" -> <<"_", "_", "t", "a", "b", "l", "e">>
      [] w = ".csv" -> <<".", "c", "s", "v">>
      [] w = " my key " -> <<" ", "m", "y", " ", "k", "e", "y", " ">>
      [] w = "a&b  c" -> <<"a", "&", "b", " ", " ", "c">>
      [] w = "k" -> <<"k">>

Digit(d) ==
    CASE d = 0 -> "0" [] d = 1 -> "1" [] d = 2 -> "2" [] d = 3 -> "3"
      [] d = 4 -> "4" [] d = 5 -> "5" [] d = 6 -> "6" [] d = 7 -> "7"
      [] d = 8 -> "8" [] d = 9 -> "9"

\* str(n) of a non-negative int: its decimal digits
RECURSIVE Str(_)
Str(n) == IF n < 10 THEN <<Digit(n)>> ELSE Str(n \div 10) \o <<Digit(n % 10)>>

\* sep.join(parts)
RECURSIVE Join(_, _)
Join(sep, parts) ==
    IF parts = <<>> THEN <<>>
    ELSE IF Len(parts) = 1 THEN parts[1]
    ELSE parts[1] \o sep \o Join(sep, Tail(parts))

(***************************************************************************)
(* QuerySpec and make_url.                                                 *)
(***************************************************************************)
QuerySpec(t, v, c, e) == [type |-> t, view |-> v, cls |-> c, extra_params |-> e]

\* BASE.format(player_id=player_id)
BASE(pid) ==
    Chars("https://stats.espncricinfo.com/ci/engine/player/") \o Str(pid) \o Chars(".html")

\* truthiness of an Optional[str]: neither None nor ""
ViewSet(spec) == spec.view # None /\ Chars(spec.view[1]) # <<>>

\* truthiness of an Optional[Dict]: neither None nor {}
ExtraSet(spec) == spec.extra_params # None /\ spec.extra_params[1] # <<>>

\* a make_url that appends class after the template marker
UrlParamsTemplateFirst(spec) ==
    LET p1 == << <<Chars("template"), Chars("results")>> >>
        p2 == IF spec.cls # None
              THEN Append(p1, <<Chars("class"), Str(spec.cls[1])>>)
              ELSE p1
        p3 == Append(p2, <<Chars("type"), Chars(spec.type)>>)
        p4 == IF ViewSet(spec)
              THEN Append(p3, <<Chars("view"), Chars(spec.view[1])>>)
              ELSE p3
        ex == IF ExtraSet(spec) THEN spec.extra_params[1] ELSE <<>>
    IN  p4 \o [i \in 1..Len(ex) |-> <<Chars(ex[i][1]), Chars(ex[i][2])>>]

\* the list `params` of make_url, as (key, value) pairs of strs
UrlParams(spec) ==
    LET p1 == IF spec.cls # None
              THEN << <<Chars("class"), Str(spec.cls[1])>> >>
              ELSE <<>>
        p2 == p1 \o << <<Chars("template"), Chars("results")>>,
                       <<Chars("type"), Chars(spec.type)>> >>
        p3 == IF ViewSet(spec)
              THEN Append(p2, <<Chars("view"), Chars(spec.view[1])>>)
              ELSE p2
        ex == IF ExtraSet(spec) THEN spec.extra_params[1] ELSE <<>>
    IN  p3 \o [i \in 1..Len(ex) |-> <<Chars(ex[i][1]), Chars(ex[i][2])>>]

make_url(pid, spec) ==
    LET params == UrlParams(spec)
        qp == Join(<<";">>, [i \in 1..Len(params) |->
                                params[i][1] \o <<"=">> \o params[i][2]])
    IN  BASE(pid) \o <<"?">> \o qp

(***************************************************************************)
(* safe_filename.                                                          *)
(***************************************************************************)
\* the characters of the class [a-zA-Z0-9._-]
SafeChars ==
    {"a", "b", "c", "d", "e", "f", "g", "h", "i", "j", "k", "l", "m", "n", "o",
     "p", "q", "r", "s", "t", "u", "v", "w", "x", "y", "z",
     "A", "B", "C", "D", "E", "F", "G", "H", "I", "J", "K", "L", "M", "N", "O",
     "P", "Q", "R", "S", "T", "U", "V", "W", "X", "Y", "Z",
     "0", "1", "2", "3", "4", "5", "6", "7", "8", "9", ".", "_", "-"}

\* what str.strip() removes
Whitespace == {" ", "\t", "\n", "\r"}

RECURSIVE LStrip(_)
LStrip(s) == IF s # <<>> /\ Head(s) \in Whitespace THEN LStrip(Tail(s)) ELSE s

RECURSIVE RStrip(_)
RStrip(s) ==
    IF s # <<>> /\ s[Len(s)] \in Whitespace THEN RStrip(SubSeq(s, 1, Len(s) - 1)) ELSE s

Strip(s) == RStrip(LStrip(s))

\* re.sub(r"[^a-zA-Z0-9._-]+", "_", s): every maximal run of characters
\* outside the class becomes one "_"; inRun says the previous character
\* was part of such a run
RECURSIVE SubUnsafe(_, _)
SubUnsafe(s, inRun) ==
    IF s = <<>> THEN <<>>
    ELSE IF Head(s) \in SafeChars THEN <<Head(s)>> \o SubUnsafe(Tail(s), FALSE)
    ELSE (IF inRun THEN <<>> ELSE <<"_">>) \o SubUnsafe(Tail(s), TRUE)

FilenameMax == 180

safe_filename(s) ==
    LET t == SubUnsafe(Strip(s), FALSE)
    IN  IF Len(t) > FilenameMax THEN Prefix(t, FilenameMax) ELSE t

(***************************************************************************)
(* Tables.  A DataFrame is [columns, rows]: the column labels and the      *)
(* data rows, every row as long as columns.  NaN is the missing cell.      *)
(***************************************************************************)
NaN == "NaN"

DataFrame(cols, rows) == [columns |-> cols, rows |-> rows]

\* df.shape
NRows(df) == Len(df.rows)

NCols(df) == Len(df.columns)

\* the elements of s at the positions of keep, in order
RECURSIVE PickFrom(_, _, _)
PickFrom(s, keep, i) ==
    IF i > Len(s) THEN <<>>
    ELSE (IF i \in keep THEN <<s[i]>> ELSE <<>>) \o PickFrom(s, keep, i + 1)

Pick(s, keep) == PickFrom(s, keep, 1)

\* df.dropna(axis=1, how="all"): keep the columns holding at least one value
DropEmptyColumns(df) ==
    LET keep == {j \in 1..NCols(df) : \E r \in 1..NRows(df) : df.rows[r][j] # NaN}
    IN  DataFrame(Pick(df.columns, keep),
                  [r \in 1..NRows(df) |-> Pick(df.rows[r], keep)])

\* a dropna whose result is not assigned back
DropEmptyRowsUnassigned(df) == df

\* df.dropna(axis=0, how="all"): keep the rows holding at least one value
DropEmptyRows(df) ==
    LET keep == {r \in 1..NRows(df) : \E j \in 1..NCols(df) : df.rows[r][j] # NaN}
    IN  DataFrame(df.columns, Pick(df.rows, keep))

\* the result of a call: the value returned, or the exception raised
Returned(v) == [raised |-> FALSE, value |-> v, msg |-> <<>>]

Raised(m) == [raised |-> TRUE, value |-> <<>>, msg |-> m]

\* pd.read_html(html) on a page [title, tables]: one DataFrame per table of
\* the markup; pandas raises ValueError("No tables found") when there is none
read_html(page) ==
    IF page.tables = <<>> THEN Raised(<<"ValueError", "No tables found">>)
    ELSE Returned(page.tables)

\* the loop body of read_tables_from_html for one df: <<>> when the table is
\* discarded, <<df>> when it is appended to cleaned
CleanTable(df) ==
    LET df1 == DropEmptyColumns(df)
        df2 == DropEmptyRows(df1)
    IN  IF NRows(df2) = 0 \/ NCols(df2) = 0 THEN <<>> ELSE <<df2>>

RECURSIVE CleanAll(_)
CleanAll(dfs) ==
    IF dfs = <<>> THEN <<>> ELSE CleanTable(Head(dfs)) \o CleanAll(Tail(dfs))

read_tables_from_html(page) ==
    LET r == read_html(page)
    IN  IF r.raised THEN r ELSE Returned(CleanAll(r.value))

\* soup.title text, or the fixed default
extract_page_title(page) ==
    IF page.title = None THEN "cricinfo_page" ELSE page.title[1]

\* df2.insert(0, k, v): a new leftmost column k holding v in every row;
\* pandas raises ValueError when the label k is already a column
InsertColumn(df, k, v) ==
    IF \E j \in 1..NCols(df) : df.columns[j] = k
    THEN Raised(<<"ValueError", "cannot insert", k, "already exists">>)
    ELSE Returned(DataFrame(<<k>> \o df.columns,
                            [r \in 1..NRows(df) |-> <<v>> \o df.rows[r]]))

\* the inner loop `for k, v in meta.items()` from item j on
RECURSIVE InsertMeta(_, _, _)
InsertMeta(df, meta, j) ==
    IF j > Len(meta) THEN Returned(df)
    ELSE LET r == InsertColumn(df, meta[j][1], meta[j][2])
         IN  IF r.raised THEN r ELSE InsertMeta(r.value, meta, j + 1)

\* a normalize_tables that enumerates from 0
NormalizeOneZeroBased(df, meta, i) ==
    LET r == InsertMeta(df, meta, 1)
    IN  IF r.raised THEN r ELSE InsertColumn(r.value, "_table_index", i - 1)

\* the loop body of normalize_tables for the i-th table
NormalizeOne(df, meta, i) ==
    LET r == InsertMeta(df, meta, 1)
    IN  IF r.raised THEN r ELSE InsertColumn(r.value, "_table_index", i)

\* the outer loop of normalize_tables from table i on, out being built
RECURSIVE NormalizeFrom(_, _, _, _)
NormalizeFrom(dfs, meta, i, out) ==
    IF i > Len(dfs) THEN Returned(out)
    ELSE LET r == NormalizeOne(dfs[i], meta, i)
         IN  IF r.raised THEN r
             ELSE NormalizeFrom(dfs, meta, i + 1, Append(out, r.value))

normalize_tables(dfs, meta) == NormalizeFrom(dfs, meta, 1, <<>>)

(***************************************************************************)
(* save_tables and write_excel_book.                                       *)
(***************************************************************************)
\* the file name of the i-th table of a page
CsvName(base_name, i) ==
    safe_filename(base_name \o Chars("__table") \o Str(i) \o Chars(".csv"))

\* save_tables: the names of the files written, in order.  failAt = j > 0
\* is a disk on which the j-th to_csv raises OSError; failAt = 0 is a disk
\* that takes every write
save_tables(tables, base_name, failAt) ==
    LET last == IF failAt = 0 THEN Len(tables) ELSE failAt - 1
        saved == [i \in 1..last |-> CsvName(base_name, i)]
    IN  IF failAt = 0 THEN Returned(saved)
        ELSE [raised |-> TRUE, value |-> saved, msg |-> <<"OSError", "to_csv">>]

SheetPrefixLen == 25

SheetNameMax == 31

\* the sheet name write_excel_book gives the i-th of the n tables of key
SheetName(key, n, i) ==
    LET sheet == Prefix(safe_filename(key), SheetPrefixLen)
        named == IF n > 1 THEN sheet \o <<"_">> \o Str(i) ELSE sheet
    IN  Prefix(named, SheetNameMax)

\* the to_excel calls of one dict item, in order
SheetsOfItem(item) ==
    [i \in 1..Len(item.dfs) |->
        [sheet |-> SheetName(item.key, Len(item.dfs), i), key |-> item.key, i |-> i]]

\* write_excel_book: the to_excel calls over all items, in order
RECURSIVE write_excel_book(_)
write_excel_book(tables) ==
    IF tables = <<>> THEN <<>>
    ELSE SheetsOfItem(Head(tables)) \o write_excel_book(Tail(tables))

\* d[key] = dfs on a dict kept as its item sequence
DictSet(d, key, dfs) ==
    IF \E j \in 1..Len(d) : d[j].key = key
    THEN [j \in 1..Len(d) |-> IF d[j].key = key THEN [key |-> key, dfs |-> dfs] ELSE d[j]]
    ELSE Append(d, [key |-> key, dfs |-> dfs])

(***************************************************************************)
(* build_default_specs.                                                    *)
(***************************************************************************)
classes_to_try == <<1, 2, 3, 4, 5, 6>>

extra_views == <<"career", "match", "series">>

\* a first loop that also asks for fielding by innings
CoreSpecsFullCross(c) ==
    << QuerySpec("batting", Some("innings"), Some(c), None),
       QuerySpec("batting", Some("results"), Some(c), None),
       QuerySpec("bowling", Some("innings"), Some(c), None),
       QuerySpec("bowling", Some("results"), Some(c), None),
       QuerySpec("fielding", Some("innings"), Some(c), None),
       QuerySpec("fielding", Some("results"), Some(c), None),
       QuerySpec("fielding", Some("dismissal_summary"), Some(c), None) >>

\* the list the first loop extends specs by for class c
CoreSpecs(c) ==
    << QuerySpec("batting", Some("innings"), Some(c), None),
       QuerySpec("batting", Some("results"), Some(c), None),
       QuerySpec("bowling", Some("innings"), Some(c), None),
       QuerySpec("bowling", Some("results"), Some(c), None),
       QuerySpec("fielding", Some("results"), Some(c), None),
       QuerySpec("fielding", Some("dismissal_summary"), Some(c), None) >>

\* the three appends of the second loop for class c and view v
ExtraSpecs(c, v) ==
    << QuerySpec("batting", Some(v), Some(c), None),
       QuerySpec("bowling", Some(v), Some(c), None),
       QuerySpec("fielding", Some(v), Some(c), None) >>

\* the characters in ASCII order, for comparing strs as sorted() does
AsciiOrder ==
    <<" ", "&", "-", ".", "/", "0", "1", "2", "3", "4", "5", "6", "7", "8", "9",
      ":", "=", "A", "B", "C", "D", "E", "F", "G", "H", "I", "J", "K", "L", "M",
      "N", "O", "P", "Q", "R", "S", "T", "U", "V", "W", "X", "Y", "Z", "_",
      "a", "b", "c", "d", "e", "f", "g", "h", "i", "j", "k", "l", "m", "n", "o",
      "p", "q", "r", "s", "t", "u", "v", "w", "x", "y", "z">>

Ord(ch) == CHOOSE i \in 1..Len(AsciiOrder) : AsciiOrder[i] = ch

\* a < b for strs
RECURSIVE StrLess(_, _)
StrLess(a, b) ==
    IF b = <<>> THEN FALSE
    ELSE IF a = <<>> THEN TRUE
    ELSE IF Head(a) = Head(b) THEN StrLess(Tail(a), Tail(b))
    ELSE Ord(Head(a)) < Ord(Head(b))

\* sorted(items) of a dict's items: by key, the keys of a dict being distinct
RECURSIVE InsertSorted(_, _)
InsertSorted(item, sorted) ==
    IF sorted = <<>> THEN <<item>>
    ELSE IF StrLess(Chars(item[1]), Chars(Head(sorted)[1])) THEN <<item>> \o sorted
    ELSE <<Head(sorted)>> \o InsertSorted(item, Tail(sorted))

RECURSIVE SortedItems(_)
SortedItems(items) ==
    IF items = <<>> THEN <<>> ELSE InsertSorted(Head(items), SortedItems(Tail(items)))

\* the de-duplication key of build_default_specs
DedupKey(sp) ==
    <<sp.type, sp.view, sp.cls,
      SortedItems(IF ExtraSet(sp) THEN sp.extra_params[1] ELSE <<>>)>>

\* first loop: one iteration, for the class at position ei
EnumCore ==
    /\ pc = "enum_core"
    /\ specs_raw' = specs_raw \o CoreSpecs(classes_to_try[ei])
    /\ IF ei < Len(classes_to_try)
       THEN ei' = ei + 1 /\ pc' = pc
       ELSE ei' = 1 /\ pc' = "enum_extra"
    /\ UNCHANGED <<player_id, seen, uniq, specs, idx, all_tables, failures, files,
                   sheets, fail_log, now, reqAt, attempted, responses, events,
                   ioErrors, arg, ret>>

\* second loop: one iteration of the inner loop; ei counts the (class, view)
\* pairs in loop order
EnumExtra ==
    /\ pc = "enum_extra"
    /\ LET c == classes_to_try[((ei - 1) \div Len(extra_views)) + 1]
           v == extra_views[((ei - 1) % Len(extra_views)) + 1]
       IN  specs_raw' = specs_raw \o ExtraSpecs(c, v)
    /\ IF ei < Len(classes_to_try) * Len(extra_views)
       THEN ei' = ei + 1 /\ pc' = pc
       ELSE ei' = 1 /\ pc' = "dedup"
    /\ UNCHANGED <<player_id, seen, uniq, specs, idx, all_tables, failures, files,
                   sheets, fail_log, now, reqAt, attempted, responses, events,
                   ioErrors, arg, ret>>

\* third loop: one iteration, for the spec at position ei
Dedup ==
    /\ pc = "dedup"
    /\ ei <= Len(specs_raw)
    /\ LET sp == specs_raw[ei]
           key == DedupKey(sp)
       IN  IF key \notin seen
           THEN seen' = seen \cup {key} /\ uniq' = Append(uniq, sp)
           ELSE UNCHANGED <<seen, uniq>>
    /\ ei' = ei + 1
    /\ UNCHANGED <<pc, player_id, specs_raw, specs, idx, all_tables, failures,
                   files, sheets, fail_log, now, reqAt, attempted, responses,
                   events, ioErrors, arg, ret>>

\* `return uniq`, and main's `specs = build_default_specs()`
EnumReturn ==
    /\ pc = "dedup"
    /\ ei > Len(specs_raw)
    /\ specs' = uniq
    /\ specs_raw' = <<>> /\ seen' = {} /\ uniq' = <<>> /\ ei' = 0
    /\ idx' = 1
    /\ pc' = "loop"
    /\ UNCHANGED <<player_id, all_tables, failures, files, sheets, fail_log, now,
                   reqAt, attempted, responses, events, ioErrors, arg, ret>>

(***************************************************************************)
(* The server and the disk: what one request of a run can meet.            *)
(***************************************************************************)
\* a response: no response at all (session.get raises), or a status and a page
TransportError == [kind |-> "transport", status |-> 0, page |-> [title |-> None, tables |-> <<>>]]

Http(status, page) == [kind |-> "http", status |-> status, page |-> page]

\* str(e) of the RuntimeError of fetch_html, the URL and the body left out
HttpMsg(status) ==
    CASE status = 403 -> <<"RuntimeError", "HTTP 403">>
      [] status = 404 -> <<"RuntimeError", "HTTP 404">>
      [] status = 500 -> <<"RuntimeError", "HTTP 500">>

\* a page whose only table holds no value: every column is dropped
QuietPage ==
    [title |-> Some("Statsguru"),
     tables |-> << DataFrame(<<"Runs">>, << <<NaN>> >>) >>]

\* markup without any table
NoTablePage == [title |-> Some("Statsguru"), tables |-> <<>>]

\* one table of 3 rows and 2 columns, nothing empty
OneTablePage ==
    [title |-> Some("Fielding"),
     tables |-> << DataFrame(<<"Ct", "St">>,
                             << <<"1", "0">>, <<"2", "1">>, <<"0", "0">> >>) >>]

\* three tables: one with an empty row and an empty column, one that is
\* discarded, one of a single cell; no title element
TwoTablePage ==
    [title |-> None,
     tables |-> << DataFrame(<<"Mat", "Pad", "Runs">>,
                             << <<"5", NaN, "90">>, <<NaN, NaN, NaN>>, <<"7", NaN, NaN>> >>),
                   DataFrame(<<"Note">>, << <<NaN>>, <<NaN>> >>),
                   DataFrame(<<"Ave">>, << <<"45">> >>) >>]

\* a table one of whose columns is labelled like a metadata column
ClashPage ==
    [title |-> Some("Batting"),
     tables |-> << DataFrame(<<"_type", "Runs">>, << <<"x", "3">> >>) >>]

PageSamples == {NoTablePage, OneTablePage, TwoTablePage, ClashPage}

QuietResp == Http(200, QuietPage)

\* the answers of a run other than the quiet one: no response, a missing
\* page, markup without tables, a page with tables, a page whose table
\* clashes with the metadata
LoudResps ==
    {TransportError, Http(404, NoTablePage), Http(200, NoTablePage),
     Http(200, TwoTablePage), Http(200, ClashPage)}

\* the disks of a run: one taking every write (0), one whose second
\* to_csv of a page raises OSError (2)
FailPoints == {0, 2}

\* the environment answers loudly only to the last MaxActive specs of the
\* run, and to at most MaxEvents of them
MaxActive == 10

MaxEvents == 2

(***************************************************************************)
(* fetch_html and the loop of main.                                        *)
(***************************************************************************)
\* fetch_html: session.get, then time.sleep, then the status check.  slept
\* says whether time.sleep(sleep_s) ran before the call ended
fetch_html(url, resp) ==
    IF resp.kind = "transport"
    THEN [raised |-> TRUE, slept |-> FALSE, value |-> resp.page,
          msg |-> <<"ConnectionError", "no response">>]
    ELSE IF resp.status # 200
    THEN [raised |-> TRUE, slept |-> TRUE, value |-> resp.page, msg |-> HttpMsg(resp.status)]
    ELSE [raised |-> FALSE, slept |-> TRUE, value |-> resp.page, msg |-> <<>>]

\* key = f"type={spec.type}__view={spec.view or 'none'}__class={spec.cls or 'none'}"
page_key(spec) ==
    Chars("type=") \o Chars(spec.type)
    \o Chars("__view=") \o (IF ViewSet(spec) THEN Chars(spec.view[1]) ELSE Chars("none"))
    \o Chars("__class=")
    \o (IF spec.cls # None /\ spec.cls[1] # 0 THEN Str(spec.cls[1]) ELSE Chars("none"))

\* the dict `meta` of main, in insertion order
page_meta(url, title, spec) ==
    << <<"_url", url>>,
       <<"_title", title>>,
       <<"_type", spec.type>>,
       <<"_view", IF ViewSet(spec) THEN spec.view[1] ELSE "">>,
       <<"_class", IF spec.cls # None THEN Str(spec.cls[1]) ELSE <<>> >> >>

\* an except clause that swallows the exception
OnExceptionSwallow(fs, url, msg) == fs

\* the `except Exception as e` clause: failures.append((url, str(e)))
OnException(fs, url, msg) == Append(fs, <<url, msg>>)

\* the outcome of lines 233-247 of the try block: value is the list dfs2,
\* <<>> when the `continue` of line 238 is taken; slept is that of fetch_html
TryOutcome(raised, slept, value, msg) ==
    [raised |-> raised, slept |-> slept, value |-> value, msg |-> msg]

\* lines 240-247: meta and normalize_tables, dfs being non-empty
TryNormalize(slept, n) == TryOutcome(n.raised, slept, n.value, n.msg)

\* lines 235-238: read_tables_from_html and `if not dfs: continue`
TryExtract(url, spec, slept, title, r) ==
    IF r.raised THEN TryOutcome(TRUE, slept, <<>>, r.msg)
    ELSE IF r.value = <<>> THEN TryOutcome(FALSE, slept, <<>>, <<>>)
    ELSE TryNormalize(slept, normalize_tables(r.value, page_meta(url, title, spec)))

\* lines 233-234: fetch_html, f being its outcome, and extract_page_title
TryFetch(url, spec, f) ==
    IF f.raised THEN TryOutcome(TRUE, f.slept, <<>>, f.msg)
    ELSE TryExtract(url, spec, f.slept, extract_page_title(f.value),
                    read_tables_from_html(f.value))

\* lines 233-247 of the try block for one spec and one response
FetchAndNormalize(url, spec, resp) == TryFetch(url, spec, fetch_html(url, resp))

\* lines 248-255 for the outcome p of lines 233-247 and the outcome s of
\* save_tables: the result mapping, the files and the failure list
Record(url, key, p, s, pos) ==
    IF p.raised
    THEN /\ failures' = OnException(failures, url, p.msg)
         /\ UNCHANGED <<all_tables, files, ioErrors>>
    ELSE IF p.value = <<>>
    THEN UNCHANGED <<failures, all_tables, files, ioErrors>>
    ELSE /\ all_tables' = DictSet(all_tables, key, p.value)
         /\ files' = files \cup {s.value[i] : i \in 1..Len(s.value)}
         /\ IF s.raised
            THEN /\ failures' = OnException(failures, url, s.msg)
                 /\ ioErrors' = ioErrors \cup {<<"csv", pos>>}
            ELSE UNCHANGED <<failures, ioErrors>>

\* the body of the for loop for the spec at position idx, the server
\* answering resp and the disk failing at the failAt-th CSV (0: never)
Iteration(url, key, resp, failAt, p) ==
    /\ (resp # QuietResp \/ failAt # 0)
          => (idx > Len(specs) - MaxActive /\ events < MaxEvents)
    /\ failAt <= Len(p.value)
    /\ events' = events + (IF resp # QuietResp \/ failAt # 0 THEN 1 ELSE 0)
    /\ attempted' = Append(attempted, idx)
    /\ reqAt' = Append(reqAt, now)
    /\ now' = now + (IF p.slept THEN 1 ELSE 0)
    /\ responses' = Append(responses, [resp |-> resp, failAt |-> failAt])
    /\ Record(url, key, p, save_tables(p.value, key, failAt), idx)

\* the body of the for loop for every answer of the server and every disk
IterationOf(url, key, spec) ==
    \E resp \in {QuietResp} \cup LoudResps, failAt \in FailPoints :
        Iteration(url, key, resp, failAt, FetchAndNormalize(url, spec, resp))

\* one iteration of the for loop of main, for the spec at position idx
ProcessSpec ==
    /\ pc = "loop"
    /\ idx <= Len(specs)
    /\ IterationOf(make_url(player_id, specs[idx]), page_key(specs[idx]), specs[idx])
    /\ idx' = idx + 1
    /\ UNCHANGED <<pc, player_id, specs_raw, seen, uniq, ei, specs, sheets,
                   fail_log, arg, ret>>

\* the for loop is exhausted
LoopEnd ==
    /\ pc = "loop"
    /\ idx > Len(specs)
    /\ pc' = "workbook"
    /\ UNCHANGED <<mainVars, arg, ret>>

\* `if all_tables:` and write_excel_book; an OSError of the writer is not
\* caught anywhere
WriteWorkbook ==
    /\ pc = "workbook"
    /\ IF all_tables = <<>>
       THEN pc' = "summary" /\ UNCHANGED <<sheets, ioErrors>>
       ELSE \E ok \in BOOLEAN :
              IF ok
              THEN /\ sheets' = write_excel_book(all_tables)
                   /\ pc' = "summary"
                   /\ UNCHANGED ioErrors
              ELSE /\ ioErrors' = ioErrors \cup {<<"xlsx", 0>>}
                   /\ pc' = "aborted"
                   /\ UNCHANGED sheets
    /\ UNCHANGED <<player_id, specs_raw, seen, uniq, ei, specs, idx, all_tables,
                   failures, files, fail_log, now, reqAt, attempted, responses,
                   events, arg, ret>>

\* the summary: `if failures:` writes failures.txt, one block per failure;
\* an OSError of open or write is not caught anywhere
Summarize ==
    /\ pc = "summary"
    /\ IF failures = <<>>
       THEN pc' = "done" /\ UNCHANGED <<fail_log, ioErrors>>
       ELSE \E ok \in BOOLEAN :
              IF ok
              THEN /\ fail_log' = failures
                   /\ pc' = "done"
                   /\ UNCHANGED ioErrors
              ELSE /\ ioErrors' = ioErrors \cup {<<"log", 0>>}
                   /\ pc' = "aborted"
                   /\ UNCHANGED fail_log
    /\ UNCHANGED <<player_id, specs_raw, seen, uniq, ei, specs, idx, all_tables,
                   failures, files, sheets, now, reqAt, attempted, responses,
                   events, arg, ret>>

\* the player ids a run is started with
PlayerIds == {625371}

Init ==
    /\ pc = "enum_core"
    /\ player_id \in PlayerIds
    /\ specs_raw = <<>> /\ seen = {} /\ uniq = <<>> /\ ei = 1
    /\ specs = <<>> /\ idx = 0
    /\ all_tables = <<>> /\ failures = <<>> /\ files = {} /\ sheets = <<>>
    /\ fail_log = <<>>
    /\ now = 0 /\ reqAt = <<>> /\ attempted = <<>> /\ responses = <<>>
    /\ events = 0 /\ ioErrors = {}
    /\ arg = <<>> /\ ret = <<>>

Next ==
    \/ EnumCore
    \/ EnumExtra
    \/ Dedup
    \/ EnumReturn
    \/ ProcessSpec
    \/ LoopEnd
    \/ WriteWorkbook
    \/ Summarize

Spec == Init /\ [][Next]_vars

\* build_default_specs on its own, up to its return
NextEnum ==
    \/ EnumCore
    \/ EnumExtra
    \/ Dedup
    \/ EnumReturn

SpecEnum == Init /\ [][NextEnum]_vars

(***************************************************************************)
(* Functions applied on their own: the argument is drawn at Init and one   *)
(* action applies the function.  The variables of main stay idle.          *)
(***************************************************************************)
IdleMain ==
    /\ player_id = 0
    /\ specs_raw = <<>> /\ seen = {} /\ uniq = <<>> /\ ei = 0
    /\ specs = <<>> /\ idx = 0
    /\ all_tables = <<>> /\ failures = <<>> /\ files = {} /\ sheets = <<>>
    /\ fail_log = <<>>
    /\ now = 0 /\ reqAt = <<>> /\ attempted = <<>> /\ responses = <<>>
    /\ events = 0 /\ ioErrors = {}

\* ---- make_url ----
MaxClass == 3

MaxExtra == 2

UrlPlayerIds == {1, 625371}

ExtraKeys == {"orderby", "filter"}

ExtraValues == {"runs", "advanced"}

\* the dicts of at most MaxExtra items, as item sequences with distinct keys
ExtraDicts ==
    UNION {{d \in [1..n -> ExtraKeys \X ExtraValues] :
               \A a, b \in 1..n : a # b => d[a][1] # d[b][1]} : n \in 0..MaxExtra}

UrlSpecs ==
    {QuerySpec(t, v, c, e) :
        t \in {"batting", "bowling", "fielding"},
        v \in {None, Some(""), Some("innings"), Some("dismissal_summary")},
        c \in {None} \cup {Some(k) : k \in 0..MaxClass},
        e \in {None} \cup {Some(d) : d \in ExtraDicts}}

InitUrl ==
    /\ pc = "url_call"
    /\ arg \in [pid : UrlPlayerIds, spec : UrlSpecs]
    /\ ret = <<>>
    /\ IdleMain

CallMakeUrl ==
    /\ pc = "url_call"
    /\ ret' = make_url(arg.pid, arg.spec)
    /\ pc' = "url_return"
    /\ UNCHANGED <<mainVars, arg>>

SpecUrl == InitUrl /\ [][CallMakeUrl]_vars

\* ---- the sheet names of write_excel_book ----
\* the numbers of tables under one key, and the positions looked at
TableCounts == {1, 2, 3, 12, 100000}

TablePositions == {1, 2, 3, 10, 12, 10000, 99999, 100000}

SheetKeys ==
    {page_key(QuerySpec("batting", Some("innings"), Some(1), None)),
     page_key(QuerySpec("fielding", Some("dismissal_summary"), Some(3), None)),
     page_key(QuerySpec("bowling", None, None, None)),
     Chars(" my key "), Chars("a&b  c"), Chars("k")}

InitSheet ==
    /\ pc = "sheet_call"
    /\ arg \in {a \in [key : SheetKeys, n : TableCounts,
                       i : TablePositions, j : TablePositions] :
                    a.i <= a.j /\ a.j <= a.n}
    /\ ret = <<>>
    /\ IdleMain

\* the names of the i-th and of the j-th sheet written for one key
CallSheetName ==
    /\ pc = "sheet_call"
    /\ ret' = <<SheetName(arg.key, arg.n, arg.i), SheetName(arg.key, arg.n, arg.j)>>
    /\ pc' = "sheet_return"
    /\ UNCHANGED <<mainVars, arg>>

SpecSheet == InitSheet /\ [][CallSheetName]_vars

\* ---- read_tables_from_html ----
MaxRows == 3

MaxCols == 2

ColumnLabels == <<"A", "B", "C", "D">>

\* the tables of at most MaxRows rows and MaxCols columns (at least one
\* column: a table has a header), every cell a value or missing
RawTables ==
    UNION {{DataFrame(SubSeq(ColumnLabels, 1, c), rows) :
               rows \in [1..r -> [1..c -> {NaN, "v"}]]} :
           r \in 0..MaxRows, c \in 1..MaxCols}

RawPages ==
    {[title |-> None, tables |-> <<t>>] : t \in RawTables}
    \cup PageSamples \cup {QuietPage}

InitTables ==
    /\ pc = "tables_call"
    /\ arg \in RawPages
    /\ ret = <<>>
    /\ IdleMain

CallReadTables ==
    /\ pc = "tables_call"
    /\ ret' = read_tables_from_html(arg)
    /\ pc' = "tables_return"
    /\ UNCHANGED <<mainVars, arg>>

SpecTables == InitTables /\ [][CallReadTables]_vars

(***************************************************************************)
(* Properties.                                                             *)
(***************************************************************************)
Range(s) == {s[i] : i \in 1..Len(s)}

\* the requests of the run that the server did not answer quietly
LoudAttempts == {i \in 1..Len(attempted) : responses[i].resp # QuietResp}

SpecAt(i) == specs[attempted[i]]

UrlAt(i) == make_url(player_id, SpecAt(i))

\* the positions of the failure records carrying url
RecordsFor(url) == {j \in 1..Len(failures) : failures[j][1] = url}

LoopOver == pc \in {"workbook", "summary", "done", "aborted"}

\* the failure list holds one record for url, with the message of p
RecordedOnce(url, p) ==
    /\ Cardinality(RecordsFor(url)) = 1
    /\ \A j \in RecordsFor(url) : failures[j][2] = p.msg

FailureRecorded(url, p) == p.raised => RecordedOnce(url, p)

\* the i-th request, if its processing raised, left its one record
AttemptRecorded(i, url) ==
    FailureRecorded(url, FetchAndNormalize(url, SpecAt(i), responses[i].resp))

\* C1: a spec whose fetch, extraction or normalization fails leaves exactly
\* one (url, message) record for its URL, and the run goes on: the specs
\* are requested once each, in the order of the list, none twice, and the
\* run is past the loop only when every spec of the list has been requested.
C1_FailureRecordedRunContinues ==
    /\ \A i \in 1..Len(attempted) : attempted[i] = i
    /\ pc = "loop" => Len(attempted) = idx - 1
    /\ LoopOver => Len(attempted) = Len(specs) /\ Len(specs) > 0
    /\ \A i \in LoudAttempts : AttemptRecorded(i, UrlAt(i))

\* a finished run in which a spec before the last one met HTTP 404
C1_Witness ==
    /\ pc = "done"
    /\ \E i \in LoudAttempts :
         /\ i < Len(specs)
         /\ responses[i].resp.kind = "http" /\ responses[i].resp.status = 404
         /\ Cardinality(RecordsFor(UrlAt(i))) = 1

\* C2: every request is followed by one sleep of the configured delay,
\* whatever its outcome, so that consecutive requests are at least one
\* delay apart.
C2_SleepAfterEveryRequest ==
    /\ now = Len(reqAt)
    /\ \A i \in 1..(Len(reqAt) - 1) : reqAt[i + 1] >= reqAt[i] + 1

\* the requests answered with status 200 and markup none of whose tables
\* survives: no table at all, or every table discarded as empty
ZeroTableAttempts ==
    {i \in 1..Len(attempted) :
        /\ responses[i].resp.kind = "http"
        /\ responses[i].resp.status = 200
        /\ CleanAll(responses[i].resp.page.tables) = <<>>}

\* C3: a spec fetched with status 200 whose markup yields no surviving
\* table is not an error: read_tables_from_html returns the empty list,
\* and the spec gets no failure record, no entry of the result mapping and
\* no per-page file.
C3_ZeroTablesIsNoError ==
    \A i \in ZeroTableAttempts :
        /\ read_tables_from_html(responses[i].resp.page) = Returned(<<>>)
        /\ RecordsFor(UrlAt(i)) = {}
        /\ \A k \in 1..Len(all_tables) : all_tables[k].key # page_key(SpecAt(i))
        /\ CsvName(page_key(SpecAt(i)), 1) \notin files

\* C4: a filesystem error while writing an output file (a per-page CSV,
\* the workbook, the failure log) terminates the run and is never turned
\* into a failure record.
C4_WriteErrorTerminatesRun ==
    ioErrors # {} =>
        /\ pc = "aborted"
        /\ \A j \in 1..Len(failures) : failures[j][2][1] # "OSError"

\* C5: every sheet name is at most 31 characters long, and two different
\* tables of one page key get different sheet names.
C5_SheetNamesShortAndDistinct ==
    pc = "sheet_return" =>
        /\ Len(ret[1]) <= SheetNameMax
        /\ Len(ret[2]) <= SheetNameMax
        /\ arg.i # arg.j => ret[1] # ret[2]

\* s.split(sep) for a one-character sep
RECURSIVE SplitFrom(_, _, _)
SplitFrom(s, sep, cur) ==
    IF s = <<>> THEN <<cur>>
    ELSE IF Head(s) = sep THEN <<cur>> \o SplitFrom(Tail(s), sep, <<>>)
    ELSE SplitFrom(Tail(s), sep, Append(cur, Head(s)))

Split(s, sep) == SplitFrom(s, sep, <<>>)

\* the part of a URL after its first "?"
QueryOf(url) ==
    LET q == CHOOSE i \in 1..Len(url) : url[i] = "?" /\ \A j \in 1..(i - 1) : url[j] # "?"
    IN  SubSeq(url, q + 1, Len(url))

KeyValue(k, v) == k \o <<"=">> \o v

\* the parameters the claim lists for a spec, in its order
ClaimedParams(spec) ==
    (IF spec.cls # None THEN <<KeyValue(Chars("class"), Str(spec.cls[1]))>> ELSE <<>>)
    \o <<KeyValue(Chars("template"), Chars("results")),
         KeyValue(Chars("type"), Chars(spec.type))>>
    \o (IF spec.view # None /\ spec.view[1] # ""
        THEN <<KeyValue(Chars("view"), Chars(spec.view[1]))>> ELSE <<>>)
    \o (IF spec.extra_params # None
        THEN [i \in 1..Len(spec.extra_params[1]) |->
                 KeyValue(Chars(spec.extra_params[1][i][1]),
                          Chars(spec.extra_params[1][i][2]))]
        ELSE <<>>)

\* C6: the query string of make_url, cut at ";", is class (when set),
\* template=results, type, view (when set), then the extra parameters in
\* insertion order; no "&" joins anything; the first parameter is class=
\* when format_class is set and template=results when it is not.
C6_UrlParameterOrder ==
    pc = "url_return" =>
        LET parts == Split(QueryOf(ret), ";")
        IN  /\ SubSeq(ret, 1, Len(BASE(arg.pid)) + 1) = BASE(arg.pid) \o <<"?">>
            /\ parts = ClaimedParams(arg.spec)
            /\ "&" \notin Range(ret)
            /\ parts[1] = IF arg.spec.cls # None
                          THEN KeyValue(Chars("class"), Str(arg.spec.cls[1]))
                          ELSE KeyValue(Chars("template"), Chars("results"))

\* a URL built from a spec with a class, a view and two extra parameters
C6_Witness ==
    /\ pc = "url_return"
    /\ arg.spec.cls # None
    /\ arg.spec.view = Some("dismissal_summary")
    /\ arg.spec.extra_params # None
    /\ Len(arg.spec.extra_params[1]) = 2
    /\ Len(Split(QueryOf(ret), ";")) = 6

\* dfs2 is what the claim says of the input list dfs: as many tables, in
\* order, each with its rows, 6 columns more, its 1-based position in the
\* leftmost column, one value per metadata column, the input cells after
NormalizedFrom(dfs2, dfs) ==
    /\ Len(dfs2) = Len(dfs)
    /\ \A p \in 1..Len(dfs) :
         /\ NRows(dfs2[p]) = NRows(dfs[p])
         /\ NCols(dfs2[p]) = NCols(dfs[p]) + 6
         /\ \A r \in 1..NRows(dfs2[p]) :
              /\ Len(dfs2[p].rows[r]) = NCols(dfs2[p])
              /\ dfs2[p].rows[r][1] = p
              /\ \A k \in 2..6 : dfs2[p].rows[r][k] = dfs2[p].rows[1][k]
              /\ SubSeq(dfs2[p].rows[r], 7, NCols(dfs2[p])) = dfs[p].rows[r]

\* C7: the tables recorded for a page are the tables extracted from its
\* markup, each with R rows and C + 6 columns, in the same order, the
\* leftmost column holding the 1-based position within that page and every
\* metadata column one value in all rows.
C7_NormalizedShape ==
    \A i \in LoudAttempts :
        \A k \in 1..Len(all_tables) :
            page_key(SpecAt(i)) = all_tables[k].key =>
                NormalizedFrom(all_tables[k].dfs,
                               CleanAll(responses[i].resp.page.tables))

\* two pages recorded in one run, one of them with two tables, the second
\* of which carries the ordinal 2
C7_Witness ==
    /\ Len(all_tables) = 2
    /\ Len(all_tables[1].dfs) = 2
    /\ all_tables[1].dfs[2].rows[1][1] = 2
    /\ Len(all_tables[2].dfs) >= 1
    /\ all_tables[2].dfs[1].rows[1][1] = 1

\* C8: every table read_tables_from_html returns has a row and a column,
\* rows as long as the header, no row without a value and no column
\* without a value.
C8_NoEmptyRowOrColumn ==
    (pc = "tables_return" /\ ~ret.raised) =>
        \A p \in 1..Len(ret.value) :
            LET df == ret.value[p]
            IN  /\ NRows(df) >= 1
                /\ NCols(df) >= 1
                /\ \A r \in 1..NRows(df) : Len(df.rows[r]) = NCols(df)
                /\ \A r \in 1..NRows(df) : \E j \in 1..NCols(df) : df.rows[r][j] # NaN
                /\ \A j \in 1..NCols(df) : \E r \in 1..NRows(df) : df.rows[r][j] # NaN

\* a table returned after losing an empty column and an empty row
C8_Witness ==
    /\ pc = "tables_return"
    /\ ~ret.raised
    /\ Len(arg.tables) = 1
    /\ Len(ret.value) = 1
    /\ NRows(ret.value[1]) < NRows(arg.tables[1])
    /\ NCols(ret.value[1]) < NCols(arg.tables[1])

Categories == {"batting", "bowling", "fielding"}

SpecOf(t, v, c) == QuerySpec(t, Some(v), Some(c), None)

\* no two positions of a list share a de-duplication key
NoDuplicates(s) ==
    Cardinality({DedupKey(s[i]) : i \in 1..Len(s)}) = Len(s)

\* the elements of s at the positions of a first occurrence, in order
FirstSeen(s) ==
    Pick(s, {i \in 1..Len(s) : \A j \in 1..(i - 1) : DedupKey(s[j]) # DedupKey(s[i])})

\* build_default_specs has returned
EnumOver == pc = "loop"

\* C9 as stated: for every class, each of the three categories with each
\* of innings and results, fielding with dismissal_summary, each of the
\* three categories with each of career, match and series; no duplicates.
C9_FullCrossProduct ==
    EnumOver =>
        /\ \A c \in Range(classes_to_try) :
             /\ \A t \in Categories : \A v \in {"innings", "results"} :
                    SpecOf(t, v, c) \in Range(specs)
             /\ SpecOf("fielding", "dismissal_summary", c) \in Range(specs)
             /\ \A t \in Categories : \A v \in Range(extra_views) :
                    SpecOf(t, v, c) \in Range(specs)
        /\ NoDuplicates(specs)

\* C9 as amended: for every class, batting and bowling with each of
\* innings and results, fielding with results and with dismissal_summary
\* (and not with innings), each of the three categories with each of
\* career, match and series, and nothing else; the list is the first
\* occurrences of the generated list in order, and has no duplicates.
C9_EnumeratedSpecs ==
    /\ pc = "dedup" => uniq = FirstSeen(SubSeq(specs_raw, 1, ei - 1))
    /\ EnumOver =>
         /\ Range(specs) =
              {SpecOf(t, v, c) : t \in {"batting", "bowling"},
                                 v \in {"innings", "results"},
                                 c \in Range(classes_to_try)}
              \cup {SpecOf("fielding", v, c) : v \in {"results", "dismissal_summary"},
                                               c \in Range(classes_to_try)}
              \cup {SpecOf(t, v, c) : t \in Categories, v \in Range(extra_views),
                                      c \in Range(classes_to_try)}
         /\ NoDuplicates(specs)

\* the list as main receives it: 90 specs, fielding with innings not among them
C9_Witness ==
    /\ pc = "loop"
    /\ Len(specs) = 90
    /\ SpecOf("fielding", "innings", 1) \notin Range(specs)
    /\ SpecOf("fielding", "results", 1) \in Range(specs)

\* C10: no two tables of a run are written to the same sheet name.
C10_OneSheetPerTable ==
    \A a, b \in 1..Len(sheets) : a # b => sheets[a].sheet # sheets[b].sheet

====
